---- MODULE Spec2Model ----
(***************************************************************************)
(* Model of tools/send_subscription_emails.py (the subscription digest     *)
(* mailer) and of the report_exercise_outcome endpoint of                   *)
(* zeeguu/api/endpoints/exercises.py.                                        *)
(*                                                                         *)
(* Time is counted in hours.  A text (mail subject or body) is the         *)
(* sequence of the string pieces that the Python code concatenates, so     *)
(* that the order of the pieces of a rendered mail can be inspected.       *)
(* A Python dict is a sequence of <<key, value>> pairs in insertion order. *)
(***************************************************************************)
EXTENDS Integers, Sequences, FiniteSets, TLC

VARIABLES
    subscriptions,          \* rows of the SearchSubscription table
    clock,                  \* wall clock read by datetime.datetime.now()
    pc,                     \* position of the run of send_subscription_emails
    error,                  \* the exception that left the run, "none" if none
    all_subscriptions,      \* local: rows with receive_email = True
    previous_day_datetime,  \* local: the cutoff, now - 1 day
    si,                     \* position of the loop over all_subscriptions
    articles,               \* local: candidates returned by the last query
    user_subscriptions,     \* local: dict email -> dict keyword -> entry
    ui,                     \* position of the loop over user_subscriptions
    queries,                \* calls of article_search_for_user, in order
    found,                  \* new_articles_found of each iteration, in order
    outbox,                 \* mails handed to ZeeguuMailer.send, in order
    run,                    \* number of the current run of the script
    fetched,                \* candidates returned by each query of this run
    prev_cutoff,            \* cutoff of the previous run
    prev_fetched,           \* candidates returned during the previous run
    prev_outbox,            \* mails sent by the previous run
    form,                   \* request.form of the last exercise report
    response,               \* what the endpoint gave back for it
    exercise_log            \* outcomes recorded by Bookmark.report_exercise_outcome

mailvars == <<subscriptions, clock, pc, error, all_subscriptions,
              previous_day_datetime, si, articles, user_subscriptions, ui,
              queries, found, outbox>>
runvars == <<run, fetched, prev_cutoff, prev_fetched, prev_outbox>>
exvars == <<form, response, exercise_log>>
vars == <<mailvars, runvars, exvars>>

----------------------------------------------------------------------------
(* Bounds of the model *)
NSubs == 3
MaxRequests == 2

(* Program constants *)
Day == 24
Limit == 3

Keywords == {"cats", "dogs"}
Users == {1, 2}
ArticleIds == {1, 2}

Min(a, b) == IF a < b THEN a ELSE b

Range(s) == {s[i] : i \in 1..Len(s)}

----------------------------------------------------------------------------
(* Collaborators: User, CandidateArticle, the recommender *)

\* User.email of the user row with the given id
EmailOf(user_id) == "user" \o ToString(user_id) \o "@zeeguu.org"

\* A CandidateArticle; article a was published at hour a
Article(a) ==
    [title |-> "title" \o ToString(a),
     url |-> "https://news/" \o ToString(a),
     published_time |-> a]

Articles == {Article(a) : a \in ArticleIds}

\* What article_search_for_user may return: at most Limit distinct articles
Candidates ==
    UNION {{c \in [1..n -> Articles] :
               \A i, j \in 1..n : c[i] = c[j] => i = j} :
           n \in 0..Min(Limit, Cardinality(ArticleIds))}

\* Rows of the SearchSubscription table; id is the primary key.  Users and
\* keywords are interchangeable, so the tables are taken up to renaming them:
\* the first row is of user 1 and keyword "cats"
SubscriptionTables ==
    {[i \in 1..NSubs |-> [id |-> i,
                          user_id |-> t[i][1],
                          keywords |-> t[i][2],
                          receive_email |-> t[i][3]]] :
       t \in {t \in [1..NSubs -> Users \X Keywords \X BOOLEAN] :
                 t[1][1] = 1 /\ t[1][2] = "cats"}}

\* Values of datetime.datetime.now(): the cutoff falls before, on and after
\* the articles' hours
Nows == {Day + h : h \in {0} \cup ArticleIds}

----------------------------------------------------------------------------
(* Python dict, insertion ordered *)

DictHas(d, k) == \E i \in 1..Len(d) : d[i][1] = k

DictGet(d, k, default) ==
    IF DictHas(d, k)
    THEN d[CHOOSE i \in 1..Len(d) : d[i][1] = k][2]
    ELSE default

\* A wrong d[k] = v that moves an overwritten key to the end
DictSetMovingToEnd(d, k, v) ==
    Append(SelectSeq(d, LAMBDA item : item[1] # k), <<k, v>>)

\* A wrong d[k] = v that always adds a new item
DictSetAppending(d, k, v) == Append(d, <<k, v>>)

\* d[k] = v
DictSet(d, k, v) ==
    IF DictHas(d, k)
    THEN [i \in 1..Len(d) |-> IF d[i][1] = k THEN <<k, v>> ELSE d[i]]
    ELSE Append(d, <<k, v>>)

----------------------------------------------------------------------------
(* Recency filter and aggregation, send_subscription_emails lines 55-63 *)

\* A wrong recency test that lets the boundary through
IsNewInclusive(article, cutoff) == article.published_time >= cutoff

\* A wrong filter that also drops what has been mailed before the run
IsNewAndUnsent(article, cutoff) ==
    /\ article.published_time > cutoff
    /\ \A m \in 1..Len(outbox) : article.url \notin Range(outbox[m].body)

\* article.published_time > previous_day_datetime
IsNew(article, cutoff) == article.published_time > cutoff

RECURSIVE NewArticlesFound(_, _)
NewArticlesFound(cands, cutoff) ==
    IF cands = <<>> THEN <<>>
    ELSE (IF IsNew(Head(cands), cutoff) THEN <<Head(cands)>> ELSE <<>>)
         \o NewArticlesFound(Tail(cands), cutoff)

\* [(article.title, article.url) for article in new_articles_found]
TitleUrlPairs(new_articles_found) ==
    [i \in 1..Len(new_articles_found) |->
        <<new_articles_found[i].title, new_articles_found[i].url>>]

\* A wrong aggregation without the test of line 60
AggregateAlways(dict, email, keywords, new_articles_found) ==
    DictSet(dict, email,
            DictSet(DictGet(dict, email, <<>>), keywords,
                    TitleUrlPairs(new_articles_found)))

\* Lines 60-63: the dict after one subscription's result
Aggregate(dict, email, keywords, new_articles_found) ==
    IF new_articles_found # <<>>
    THEN LET updated_dict == DictSet(DictGet(dict, email, <<>>), keywords,
                                     TitleUrlPairs(new_articles_found))
         IN DictSet(dict, email, updated_dict)
    ELSE dict

----------------------------------------------------------------------------
(* Rendering, send_mail_new_articles_search lines 13-35 *)

\* sep.join(parts), each part a text
RECURSIVE Join(_, _)
Join(sep, parts) ==
    IF Len(parts) = 0 THEN <<>>
    ELSE IF Len(parts) = 1 THEN parts[1]
    ELSE parts[1] \o <<sep>> \o Join(sep, Tail(parts))

\* A wrong plural test
PluralFromOne(new_content_dict) ==
    IF Len(new_content_dict) >= 1 THEN "searches" ELSE "search"

\* ("searches" if len(new_content_dict) > 1 else "search")
Plural(new_content_dict) ==
    IF Len(new_content_dict) > 1 THEN "searches" ELSE "search"

BodyHead(new_content_dict) ==
    Join("\r\n",
         << <<"Hi there,">>,
            <<" ">>,
            <<"There are new articles related to your subscribed ",
              Plural(new_content_dict),
              ". You can find your subscriptions here: https://www.zeeguu.org/articles/mySearches">>,
            <<" ">> >>)

ArticleLine(pair) == <<"- <a href=\"", pair[2], "\">", pair[1], "</a>">>

\* The text added to the body for one item of the dict (line 23)
KeywordSection(keyword, titles) ==
    Join("\r\n",
         << <<" ">>, <<"Search: '", keyword, "': ">> >>
         \o [i \in 1..Len(titles) |-> ArticleLine(titles[i])])
    \o <<"\n">>

RECURSIVE KeywordSections(_)
KeywordSections(new_content_dict) ==
    IF Len(new_content_dict) = 0 THEN <<>>
    ELSE KeywordSection(new_content_dict[1][1], new_content_dict[1][2])
         \o KeywordSections(Tail(new_content_dict))

BodyTail == Join("\r\n", << <<" ">>, <<" ">>, <<"Cheers,">>, <<"The Zeeguu Team">> >>)

Body(new_content_dict) ==
    BodyHead(new_content_dict) \o KeywordSections(new_content_dict) \o BodyTail

Subject(new_content_dict) ==
    <<"New articles for ", "'">>
    \o Join("','", [i \in 1..Len(new_content_dict) |-> <<new_content_dict[i][1]>>])
    \o <<"'">>

\* The mail ZeeguuMailer(subject, body, to_email) is built with
Mail(to_email, new_content_dict) ==
    [to |-> to_email,
     subject |-> Subject(new_content_dict),
     body |-> Body(new_content_dict)]

----------------------------------------------------------------------------
(* The run of send_subscription_emails *)

MailInit ==
    /\ subscriptions \in SubscriptionTables
    /\ clock \in Nows
    /\ pc = "start"
    /\ error = "none"
    /\ all_subscriptions = <<>>
    /\ previous_day_datetime = 0
    /\ si = 1
    /\ articles = <<>>
    /\ user_subscriptions = <<>>
    /\ ui = 1
    /\ queries = <<>>
    /\ found = <<>>
    /\ outbox = <<>>

RunInit ==
    /\ run = 1
    /\ fetched = <<>>
    /\ prev_cutoff = 0
    /\ prev_fetched = <<>>
    /\ prev_outbox = <<>>

ExInit ==
    /\ form = [outcome |-> "", solving_speed |-> "0",
               bookmark_id |-> "1", session_id |-> "7"]
    /\ response = "none"
    /\ exercise_log = <<>>

\* A wrong query that forgets filter_by(receive_email=True)
QueryAll(table) == table

\* SearchSubscription.query.filter_by(receive_email=True).all()
QueryReceiveEmail(table) == SelectSeq(table, LAMBDA row : row.receive_email)

\* Lines 39-42
Start ==
    /\ pc = "start"
    /\ all_subscriptions' = QueryReceiveEmail(subscriptions)
    /\ previous_day_datetime' = clock - Day
    /\ user_subscriptions' = <<>>
    /\ si' = 1
    /\ pc' = "loop"
    /\ UNCHANGED <<subscriptions, clock, error, articles, ui, queries,
                   found, outbox>>

\* One iteration of the loop of lines 43-63, the recommender returning cands
IterateWith(cands) ==
    /\ pc = "loop"
    /\ si <= Len(all_subscriptions)
    /\ LET subscription == all_subscriptions[si]
           email == EmailOf(subscription.user_id)
       IN /\ queries' = Append(queries, [sub |-> subscription.id,
                                          user_id |-> subscription.user_id,
                                          keywords |-> subscription.keywords])
          /\ articles' = cands
          /\ found' = Append(found, NewArticlesFound(cands, previous_day_datetime))
          /\ user_subscriptions' =
                 Aggregate(user_subscriptions, email, subscription.keywords,
                           NewArticlesFound(cands, previous_day_datetime))
    /\ si' = si + 1
    /\ UNCHANGED <<subscriptions, clock, pc, error, all_subscriptions,
                   previous_day_datetime, ui, outbox>>

Iterate == \E cands \in Candidates : IterateWith(cands)

\* User.find_by_id raises at line 44: the run ends with the exception
LookupRaises ==
    /\ pc = "loop"
    /\ si <= Len(all_subscriptions)
    /\ pc' = "raised"
    /\ error' = "lookup"
    /\ UNCHANGED <<subscriptions, clock, all_subscriptions,
                   previous_day_datetime, si, articles, user_subscriptions,
                   ui, queries, found, outbox>>

\* article_search_for_user raises at line 46: the run ends with the exception
RecommenderRaises ==
    /\ pc = "loop"
    /\ si <= Len(all_subscriptions)
    /\ LET subscription == all_subscriptions[si]
       IN queries' = Append(queries, [sub |-> subscription.id,
                                       user_id |-> subscription.user_id,
                                       keywords |-> subscription.keywords])
    /\ pc' = "raised"
    /\ error' = "recommender"
    /\ UNCHANGED <<subscriptions, clock, all_subscriptions,
                   previous_day_datetime, si, articles, user_subscriptions,
                   ui, found, outbox>>

\* The loop of line 43 is exhausted, the loop of line 64 begins
LoopDone ==
    /\ pc = "loop"
    /\ si > Len(all_subscriptions)
    /\ ui' = 1
    /\ pc' = "send"
    /\ UNCHANGED <<subscriptions, clock, error, all_subscriptions,
                   previous_day_datetime, si, articles, user_subscriptions,
                   queries, found, outbox>>

\* A wrong place of the loop of line 64: inside the loop of line 43
SendPhaseInLoop == pc \in {"loop", "send"}

\* The loop of line 64 follows the loop of line 43
SendPhase == pc = "send"

\* One iteration of the loop of lines 64-65
SendOne ==
    /\ SendPhase
    /\ ui <= Len(user_subscriptions)
    /\ outbox' = Append(outbox, Mail(user_subscriptions[ui][1],
                                     user_subscriptions[ui][2]))
    /\ ui' = ui + 1
    /\ UNCHANGED <<subscriptions, clock, pc, error, all_subscriptions,
                   previous_day_datetime, si, articles, user_subscriptions,
                   queries, found>>

\* A wrong handling of a failed send: the exception is swallowed
SendRaisesSwallowed ==
    /\ pc = "send"
    /\ ui <= Len(user_subscriptions)
    /\ error' = "mail"
    /\ ui' = ui + 1
    /\ UNCHANGED <<subscriptions, clock, pc, all_subscriptions,
                   previous_day_datetime, si, articles, user_subscriptions,
                   queries, found, outbox>>

\* emailer.send() raises at line 35: the run ends with the exception
SendRaises ==
    /\ pc = "send"
    /\ ui <= Len(user_subscriptions)
    /\ pc' = "raised"
    /\ error' = "mail"
    /\ UNCHANGED <<subscriptions, clock, all_subscriptions,
                   previous_day_datetime, si, articles, user_subscriptions,
                   ui, queries, found, outbox>>

\* The loop of line 64 is exhausted: the run returns
Finish ==
    /\ pc = "send"
    /\ ui > Len(user_subscriptions)
    /\ pc' = "done"
    /\ UNCHANGED <<subscriptions, clock, error, all_subscriptions,
                   previous_day_datetime, si, articles, user_subscriptions,
                   ui, queries, found, outbox>>

Init == MailInit /\ RunInit /\ ExInit

Next ==
    \/ Start /\ UNCHANGED <<runvars, exvars>>
    \/ Iterate /\ UNCHANGED <<runvars, exvars>>
    \/ LookupRaises /\ UNCHANGED <<runvars, exvars>>
    \/ RecommenderRaises /\ UNCHANGED <<runvars, exvars>>
    \/ LoopDone /\ UNCHANGED <<runvars, exvars>>
    \/ SendOne /\ UNCHANGED <<runvars, exvars>>
    \/ SendRaises /\ UNCHANGED <<runvars, exvars>>
    \/ Finish /\ UNCHANGED <<runvars, exvars>>

\* One run of the script, any of its collaborators failing or not
Spec == Init /\ [][Next]_vars

----------------------------------------------------------------------------
(* Two complete runs of the script over the same table and the same         *)
(* recommender results; no collaborator fails.  A run is a single step.     *)

\* The dict at the end of the loop of lines 43-63
RECURSIVE AggregateAll(_, _, _, _)
AggregateAll(dict, subs, results, cutoff) ==
    IF Len(subs) = 0 THEN dict
    ELSE AggregateAll(Aggregate(dict, EmailOf(Head(subs).user_id),
                                Head(subs).keywords,
                                NewArticlesFound(Head(results), cutoff)),
                      Tail(subs), Tail(results), cutoff)

\* The mails of the loop of lines 64-65
SendAll(dict) == [i \in 1..Len(dict) |-> Mail(dict[i][1], dict[i][2])]

\* Lines 38-65 from the call to the return, the clock showing now and the
\* recommender returning results[i] to the i-th query
CompleteRun(now, results) ==
    LET subs == QueryReceiveEmail(subscriptions)
        cutoff == now - Day
        dict == AggregateAll(<<>>, subs, results, cutoff)
    IN /\ all_subscriptions' = subs
       /\ previous_day_datetime' = cutoff
       /\ si' = Len(subs) + 1
       /\ articles' = IF Len(subs) = 0 THEN <<>> ELSE results[Len(subs)]
       /\ user_subscriptions' = dict
       /\ ui' = Len(dict) + 1
       /\ queries' = [i \in 1..Len(subs) |->
                         [sub |-> subs[i].id, user_id |-> subs[i].user_id,
                          keywords |-> subs[i].keywords]]
       /\ found' = [i \in 1..Len(subs) |-> NewArticlesFound(results[i], cutoff)]
       /\ outbox' = SendAll(dict)
       /\ fetched' = results
       /\ pc' = "done"
       /\ UNCHANGED <<subscriptions, error>>

FirstRun ==
    /\ run = 1
    /\ pc = "start"
    /\ \E results \in [1..Len(QueryReceiveEmail(subscriptions)) -> Candidates] :
          CompleteRun(clock, results)
    /\ UNCHANGED <<clock, run, prev_cutoff, prev_fetched, prev_outbox>>

\* The script is started again (lines 67-68); the clock has not gone back
SecondRun ==
    /\ run = 1
    /\ pc = "done"
    /\ run' = 2
    /\ prev_cutoff' = previous_day_datetime
    /\ prev_fetched' = fetched
    /\ prev_outbox' = outbox
    /\ \E now \in {c \in Nows : c >= clock} :
          /\ clock' = now
          /\ CompleteRun(now, fetched)

NextTwoRuns ==
    \/ FirstRun /\ UNCHANGED exvars
    \/ SecondRun /\ UNCHANGED exvars

\* The first run is started at the earliest hour of the model
TwoRunsInit == Init /\ clock = Day

SpecTwoRuns == TwoRunsInit /\ [][NextTwoRuns]_vars

----------------------------------------------------------------------------
(* The endpoint report_exercise_outcome, exercises.py lines 188-225 *)

\* request.form.get gives None for a field the request does not carry
None == "<None>"

BookmarkIds == {"1"}

Forms ==
    [outcome : {"", "Correct"},
     solving_speed : {None, "fast", "1200"},
     bookmark_id : {None, "1", "2"},
     session_id : {None, "seven", "7"}]

\* Whether int(s) returns: None raises TypeError, a non-number ValueError
IntParses(s) == s \in {"7", "1200", "1", "2"}

\* str.isdigit()
IsDigit(s) == s \in {"7", "1200", "1", "2"}

\* Lines 216-225: whether the try block ends without an exception
TryBlockSucceeds(bookmark_found, outcome_recorded) ==
    bookmark_found /\ outcome_recorded

\* Lines 206-225: what the caller gets for the form f; db_ok tells whether
\* Bookmark.report_exercise_outcome returns or raises
Respond(f, db_ok) ==
    IF ~IntParses(f.session_id) THEN "raised"
    ELSE IF f.solving_speed = None THEN "raised"
    ELSE IF TryBlockSucceeds(f.bookmark_id \in BookmarkIds, db_ok) THEN "OK"
    ELSE "FAIL"

\* Lines 213-214: the solving speed that is recorded
SolvingSpeed(f) == IF IsDigit(f.solving_speed) THEN f.solving_speed ELSE "0"

\* One request handled by report_exercise_outcome
ReportExerciseOutcome ==
    /\ Len(exercise_log) < MaxRequests
    /\ \E f \in Forms, db_ok \in BOOLEAN :
          /\ form' = f
          /\ response' = Respond(f, db_ok)
          /\ exercise_log' =
                 IF Respond(f, db_ok) = "OK"
                 THEN Append(exercise_log,
                             [bookmark_id |-> f.bookmark_id,
                              outcome |-> f.outcome,
                              solving_speed |-> SolvingSpeed(f),
                              session_id |-> f.session_id])
                 ELSE exercise_log

NextExercises ==
    \/ ReportExerciseOutcome /\ UNCHANGED <<mailvars, runvars>>

ExercisesInit ==
    /\ subscriptions = [i \in 1..NSubs |->
                           [id |-> i, user_id |-> 1, keywords |-> "cats",
                            receive_email |-> FALSE]]
    /\ clock = Day
    /\ pc = "start"
    /\ error = "none"
    /\ all_subscriptions = <<>>
    /\ previous_day_datetime = 0
    /\ si = 1
    /\ articles = <<>>
    /\ user_subscriptions = <<>>
    /\ ui = 1
    /\ queries = <<>>
    /\ found = <<>>
    /\ outbox = <<>>
    /\ RunInit
    /\ ExInit

SpecExercises == ExercisesInit /\ [][NextExercises]_vars

----------------------------------------------------------------------------
(* Reading a state and a rendered mail *)

\* The n-th smallest element of a set of numbers
Nth(S, n) == CHOOSE x \in S : Cardinality({y \in S : y < x}) = n - 1

Recipients == [i \in 1..Len(outbox) |-> outbox[i].to]

EnabledRows == {r \in 1..Len(subscriptions) : subscriptions[r].receive_email}

\* The iterations of the loop of line 43 that found new articles for a user
QualifyingIterations(email) ==
    {i \in 1..Len(found) : found[i] # <<>> /\ EmailOf(queries[i].user_id) = email}

\* The rows of the table whose query found new articles
QualifiedRows ==
    {r \in EnabledRows :
        \E i \in 1..Len(found) : queries[i].sub = r /\ found[i] # <<>>}

QualifiedEmails == {EmailOf(subscriptions[r].user_id) : r \in QualifiedRows}

\* The entry stored for a keyword of a user, <<>> if there is none
Lookup(dict, email, keyword) == DictGet(DictGet(dict, email, <<>>), keyword, <<>>)

\* The keywords a subject lists, in its order
SubjectKeywords(subject) == SelectSeq(subject, LAMBDA piece : piece \in Keywords)

\* The places of a body where a keyword section starts
SectionStarts(body) == {i \in 1..Len(body) : body[i] = "Search: '"}

\* The keywords of the sections of a body, in its order
BodyKeywords(body) ==
    [n \in 1..Cardinality(SectionStarts(body)) |-> body[Nth(SectionStarts(body), n) + 1]]

\* The (title, url) pairs of the article lines of the n-th section of a body
SectionArticles(body, n) ==
    LET from == Nth(SectionStarts(body), n)
        upto == IF n < Cardinality(SectionStarts(body))
                THEN Nth(SectionStarts(body), n + 1)
                ELSE Len(body) + 1
        links == {i \in from..(upto - 1) : body[i] = "- <a href=\""}
    IN [m \in 1..Cardinality(links) |->
           <<body[Nth(links, m) + 3], body[Nth(links, m) + 1]>>]

----------------------------------------------------------------------------
(* C1: in any state of a run no address has been mailed twice and only     *)
(* users owning an email-enabled subscription whose filtered result was    *)
(* not empty have been mailed; when the run has returned, every enabled    *)
(* row has been queried and the mailed addresses are exactly those users.  *)
C1_OneMailPerQualifiedUser ==
    /\ \A i, j \in 1..Len(outbox) : outbox[i].to = outbox[j].to => i = j
    /\ Range(Recipients) \subseteq QualifiedEmails
    /\ pc = "done" =>
          /\ \A r \in EnabledRows : \E i \in 1..Len(found) : queries[i].sub = r
          /\ Range(Recipients) = QualifiedEmails

\* A finished run in which one user had two qualifying subscriptions and got
\* one mail and another user had an enabled subscription and got none
C1_Witness ==
    /\ pc = "done"
    /\ Len(outbox) = 1
    /\ Cardinality(QualifyingIterations(outbox[1].to)) >= 2
    /\ \E r \in EnabledRows : EmailOf(subscriptions[r].user_id) # outbox[1].to

(* C2: after an iteration of the loop, the entry stored for the keyword of *)
(* its subscription is the (title, url) pairs of the candidates published  *)
(* strictly after now - 1 day, in the candidates' order; and no entry of   *)
(* the dict holds an article published at or before that cutoff.           *)
C2_EntryIsRecentSubsequence ==
    Len(found) >= 1 =>
       LET q == queries[Len(found)]
           cutoff == clock - Day
           recent == {j \in 1..Len(articles) : articles[j].published_time > cutoff}
           entry == Lookup(user_subscriptions, EmailOf(q.user_id), q.keywords)
       IN /\ recent # {} =>
                /\ Len(entry) = Cardinality(recent)
                /\ \A n \in 1..Len(entry) :
                      entry[n] = <<articles[Nth(recent, n)].title,
                                   articles[Nth(recent, n)].url>>
          /\ \A u \in 1..Len(user_subscriptions) :
                \A k \in 1..Len(user_subscriptions[u][2]) :
                   \A pair \in Range(user_subscriptions[u][2][k][2]) :
                      \A a \in Articles :
                         <<a.title, a.url>> = pair => a.published_time > cutoff

\* The last query returned an article published exactly at the cutoff
\* together with a newer one, and an entry was stored
C2_Witness ==
    /\ Len(found) >= 1
    /\ \E j \in 1..Len(articles) : articles[j].published_time = clock - Day
    /\ found[Len(found)] # <<>>
    /\ Len(articles) = 2

(* C3: every recommender query is made for a row with receive_email true; *)
(* every mailed address and every keyword in a subject or a body section   *)
(* comes from an enabled row of that user whose query found new articles.  *)
C3_DisabledRowsContributeNothing ==
    /\ \A i \in 1..Len(queries) : subscriptions[queries[i].sub].receive_email
    /\ \A m \in 1..Len(outbox) :
          /\ \E r \in QualifiedRows : EmailOf(subscriptions[r].user_id) = outbox[m].to
          /\ \A k \in Range(SubjectKeywords(outbox[m].subject))
                      \cup Range(BodyKeywords(outbox[m].body)) :
                \E r \in QualifiedRows :
                   /\ EmailOf(subscriptions[r].user_id) = outbox[m].to
                   /\ subscriptions[r].keywords = k

\* A finished run that mailed somebody while a user whose only rows are
\* disabled got nothing
C3_Witness ==
    /\ pc = "done"
    /\ outbox # <<>>
    /\ \E r \in 1..Len(subscriptions) :
          /\ ~subscriptions[r].receive_email
          /\ EmailOf(subscriptions[r].user_id) \notin Range(Recipients)
          /\ \A m \in 1..Len(outbox) :
                subscriptions[r].keywords \notin Range(SubjectKeywords(outbox[m].subject))

(* C9: every mail sent has at least one keyword section; its body says     *)
(* "search" and not "searches" when it has exactly one section, and        *)
(* "searches" and not "search" when it has two or more.                    *)
C9_Pluralization ==
    \A m \in 1..Len(outbox) :
       LET n == Cardinality(SectionStarts(outbox[m].body))
           pieces == Range(outbox[m].body)
       IN /\ n >= 1
          /\ n = Len(SubjectKeywords(outbox[m].subject))
          /\ n = 1 => "search" \in pieces /\ "searches" \notin pieces
          /\ n >= 2 => "searches" \in pieces /\ "search" \notin pieces

\* A run that sent one mail with one section and one mail with two
C9_Witness ==
    /\ \E m \in 1..Len(outbox) : Cardinality(SectionStarts(outbox[m].body)) = 1
    /\ \E m \in 1..Len(outbox) : Cardinality(SectionStarts(outbox[m].body)) = 2

(* C10: when a mail has been sent, the recommender has been queried for    *)
(* every enabled row and every query has returned; when the user lookup or *)
(* the recommender has failed, no mail has been sent.                      *)
C10_QueriesBeforeMails ==
    /\ outbox # <<>> =>
          /\ Len(queries) = Cardinality(EnabledRows)
          /\ Len(found) = Len(queries)
    /\ error \in {"lookup", "recommender"} => outbox = <<>>

\* The recommender failed after a digest had been aggregated
C10_Witness ==
    /\ error = "recommender"
    /\ user_subscriptions # <<>>
    /\ outbox = <<>>

(* C7: once a collaborator has raised, the run has ended with the          *)
(* exception and no step follows: the queries made and the mails sent stay *)
(* those made before the failure, so that after a failed send exactly the  *)
(* users before the failing one have their mail, and after a failed lookup *)
(* or query nobody has.                                                    *)
C7_FailureAbortsRun ==
    error # "none" =>
       /\ pc = "raised"
       /\ ~ENABLED Next
       /\ error = "mail" =>
             /\ ui <= Len(user_subscriptions)
             /\ Recipients = [i \in 1..(ui - 1) |-> user_subscriptions[i][1]]
       /\ error \in {"lookup", "recommender"} =>
             /\ outbox = <<>>
             /\ Len(found) = si - 1
             /\ si <= Len(all_subscriptions)

\* The send to the second user failed after the first user was mailed
C7_Witness ==
    /\ error = "mail"
    /\ Len(outbox) = 1
    /\ Len(user_subscriptions) = 2

----------------------------------------------------------------------------
(* Keyword order of a digest *)

\* The keywords of a user's qualifying subscriptions, in processing order
ProcessedKeywords(email) ==
    LET its == QualifyingIterations(email)
    IN [n \in 1..Cardinality(its) |-> queries[Nth(its, n)].keywords]

\* The iterations that are the first qualifying one of the user's keyword
FirstIterations(email) ==
    {i \in QualifyingIterations(email) :
        \A j \in QualifyingIterations(email) :
           queries[j].keywords = queries[i].keywords => i <= j}

\* The user's distinct qualifying keywords, in order of first processing
DistinctKeywords(email) ==
    LET its == FirstIterations(email)
    IN [n \in 1..Cardinality(its) |-> queries[Nth(its, n)].keywords]

\* The last qualifying iteration of a user's keyword
LastIteration(email, keyword) ==
    CHOOSE i \in QualifyingIterations(email) :
       /\ queries[i].keywords = keyword
       /\ \A j \in QualifyingIterations(email) :
             queries[j].keywords = keyword => j <= i

(* C4 as claimed: the subject and the body of every mail list the keywords *)
(* of the user's qualifying subscriptions in processing order, one item    *)
(* per qualifying subscription, nothing deduplicated.                      *)
C4_KeywordsInProcessingOrder ==
    \A m \in 1..Len(outbox) :
       /\ SubjectKeywords(outbox[m].subject) = ProcessedKeywords(outbox[m].to)
       /\ BodyKeywords(outbox[m].body) = ProcessedKeywords(outbox[m].to)

(* C4 as amended: the subject and the body of every mail list the distinct *)
(* keywords of the user's qualifying subscriptions, each once, in the      *)
(* order in which each keyword was first processed; the article lines of a *)
(* keyword's section are the filtered candidates, in their order, of the   *)
(* last qualifying subscription with that keyword.                         *)
C4_DistinctKeywordsInFirstProcessingOrder ==
    \A m \in 1..Len(outbox) :
       LET email == outbox[m].to
           body == outbox[m].body
       IN /\ SubjectKeywords(outbox[m].subject) = DistinctKeywords(email)
          /\ BodyKeywords(body) = DistinctKeywords(email)
          /\ Len(outbox[m].subject) = 2 * Len(DistinctKeywords(email)) + 2
          /\ \A n \in 1..Len(DistinctKeywords(email)) :
                LET last == found[LastIteration(email, DistinctKeywords(email)[n])]
                IN SectionArticles(body, n) =
                      [a \in 1..Len(last) |-> <<last[a].title, last[a].url>>]

\* A mail to a user whose qualifying subscriptions were processed as cats,
\* dogs, cats, the two cats queries finding different articles
C4_Witness ==
    \E m \in 1..Len(outbox) :
       /\ ProcessedKeywords(outbox[m].to) = <<"cats", "dogs", "cats">>
       /\ found[1] # found[3]
       /\ Len(found[3]) = 2

(* C5: an email is a key of the dict at most once and a keyword is a key   *)
(* of a user's dict at most once; an iteration of the loop that found new  *)
(* articles sets the entry of its user and keyword to their (title, url)   *)
(* pairs, also when there was one, and leaves every other entry as it was; *)
(* an iteration that found none leaves every entry as it was.              *)
C5_KeysUnique ==
    /\ \A i, j \in 1..Len(user_subscriptions) :
          user_subscriptions[i][1] = user_subscriptions[j][1] => i = j
    /\ \A u \in 1..Len(user_subscriptions) :
          \A i, j \in 1..Len(user_subscriptions[u][2]) :
             user_subscriptions[u][2][i][1] = user_subscriptions[u][2][j][1] => i = j

C5_IterationWritesOneEntry ==
    (pc = "loop" /\ si' = si + 1) =>
       LET subscription == all_subscriptions[si]
           new == found'[Len(found')]
       IN \A u \in Users, k \in Keywords :
             Lookup(user_subscriptions', EmailOf(u), k) =
                IF u = subscription.user_id /\ k = subscription.keywords /\ new # <<>>
                THEN [a \in 1..Len(new) |-> <<new[a].title, new[a].url>>]
                ELSE Lookup(user_subscriptions, EmailOf(u), k)

(* C5: keys stay unique and every iteration writes at most the one entry  *)
(* of its user and keyword, the later write replacing the earlier.         *)
C5_LastWriteWins == []C5_KeysUnique /\ [][C5_IterationWritesOneEntry]_vars

\* The third subscription of a user overwrote the entry of the first with
\* other articles while the entry of the second, for the other keyword, stayed
C5_Witness ==
    /\ Len(found) = 3
    /\ \A i \in 1..3 : found[i] # <<>> /\ queries[i].user_id = 1
    /\ queries[1].keywords = queries[3].keywords
    /\ queries[2].keywords # queries[1].keywords
    /\ found[1] # found[3]
    /\ Len(user_subscriptions) = 1
    /\ Len(user_subscriptions[1][2]) = 2

----------------------------------------------------------------------------
(* Two runs *)

\* No candidate of the first run was published after the first run's cutoff
\* and at or before the second run's
NoCandidateBetweenCutoffs ==
    \A i \in 1..Len(prev_fetched) :
       \A j \in 1..Len(prev_fetched[i]) :
          ~(/\ prev_fetched[i][j].published_time > prev_cutoff
            /\ prev_fetched[i][j].published_time <= previous_day_datetime)

(* C8 as claimed: a second run over the same table and the same candidates *)
(* sends the mails of the first run again.                                 *)
C8_SecondRunSendsSame ==
    (run = 2 /\ pc = "done") => outbox = prev_outbox

(* C8 as amended: a second run over the same table and the same candidates *)
(* sends the mails of the first run again, provided that no candidate was  *)
(* published after the first run's cutoff and at or before the second      *)
(* run's cutoff; nothing a run has sent is remembered by the next.         *)
C8_SecondRunSendsSameUnlessAged ==
    (run = 2 /\ pc = "done" /\ NoCandidateBetweenCutoffs) => outbox = prev_outbox

\* A later second run that sent again the two mails of the first
C8_Witness ==
    /\ run = 2
    /\ pc = "done"
    /\ previous_day_datetime > prev_cutoff
    /\ NoCandidateBetweenCutoffs
    /\ Len(prev_outbox) = 2
    /\ outbox = prev_outbox

----------------------------------------------------------------------------
(* The endpoint *)

(* C6: every request handled by report_exercise_outcome is answered "OK"   *)
(* or "FAIL", no error reaching the caller, and "OK" only when the outcome *)
(* was recorded.                                                           *)
C6_AnswersOkOrFail ==
    /\ response \in {"none", "OK", "FAIL"}
    /\ response = "OK" =>
          /\ exercise_log # <<>>
          /\ exercise_log[Len(exercise_log)].bookmark_id = form.bookmark_id

====
